---- MODULE Spec2Model ----
(***************************************************************************)
(* A model of paddle::Argument (src/paddle/parameter/Argument.h): the      *)
(* readiness synchronizer (waitValueReady / notifyValueReady /             *)
(* waitGradReady / notifyGradReady) run by concurrent threads on one       *)
(* shared descriptor, and the descriptor's construction, copy, assignment  *)
(* and derived queries.                                                    *)
(***************************************************************************)
EXTENDS Integers, Sequences, FiniteSets, TLC

(***************************************************************************)
(* Bounds of the model.                                                    *)
(***************************************************************************)
\* the largest fan-out / fan-in degree (allCount) a run is configured with
MaxAll == 2
\* the largest number of passes a thread runs (calls it makes)
MaxPasses == 2
\* the number of threads besides thread 1 that may take part in a run
NumPeers == 3

\* Thread 1 is the single party of a direction (the producer calling
\* notifyValueReady, or the layer calling waitGradReady); the peers are the
\* consumers calling waitValueReady, or the contributors calling
\* notifyGradReady.
Threads == 1..(NumPeers + 1)
Peers == Threads \ {1}

(***************************************************************************)
(* State.  allCount, valueCount, gradCount are the fields of the shared    *)
(* descriptor; valueMutex/valueWaiting and gradMutex/gradWaiting are the   *)
(* state of its two LockedCondition members (the holder of the mutex, the  *)
(* threads suspended in condition_variable::wait).  role, limit, calls,    *)
(* pc and tmp are the threads: what each calls, how many calls it makes,   *)
(* how many have returned, where it is inside the current call, and the    *)
(* value of gradCount it loaded for gradCount++.                           *)
(* passBarrier says whether the caller separates the passes of the value   *)
(* direction (no thread starts its call of the next pass before every      *)
(* thread's call of this pass has returned).                               *)
(* released observes the run: the number of waitValueReady calls that have *)
(* returned since the last notifyValueReady.                               *)
(* args are the descriptors of the single-threaded runs (construction,     *)
(* copy, assignment, queries), ret the last operation made on them with    *)
(* its operands and result, writes the number of member writes made.       *)
(***************************************************************************)
VARIABLES allCount, valueCount, gradCount,
          valueMutex, valueWaiting, gradMutex, gradWaiting,
          role, limit, passBarrier, calls, pc, tmp, released,
          args, ret, writes

vars == <<allCount, valueCount, gradCount,
          valueMutex, valueWaiting, gradMutex, gradWaiting,
          role, limit, passBarrier, calls, pc, tmp, released,
          args, ret, writes>>

counters == <<allCount, valueCount, gradCount>>
valueCond == <<valueMutex, valueWaiting>>
gradCond == <<gradMutex, gradWaiting>>
config == <<role, limit, passBarrier>>
descriptors == <<args, ret, writes>>

\* the value of a std::mutex nobody holds
Unlocked == 0

(***************************************************************************)
(* LockedCondition (paddle/utils/Locks.h): a condition variable with its   *)
(* own mutex.  wait(pred) takes the mutex, evaluates pred under it, and    *)
(* either returns with the mutex released or suspends (releasing it) until *)
(* woken; notify_all(op) takes the mutex, runs op, wakes every suspended   *)
(* thread and releases the mutex.                                          *)
(***************************************************************************)
\* std::unique_lock / std::lock_guard construction on mutex m by thread t
MutexLock(m, mNext, t) ==
    /\ m = Unlocked
    /\ mNext = t

\* the unique_lock / lock_guard of thread t goes out of scope
MutexUnlock(m, mNext, t) ==
    /\ m = t
    /\ mNext = Unlocked

\* condition_variable::wait(lock): release the mutex and suspend
CondSuspend(m, mNext, w, wNext, t) ==
    /\ m = t
    /\ mNext = Unlocked
    /\ wNext = w \cup {t}

\* where every thread suspended on a condition resumes after notify_all:
\* it has to take the mutex again before it evaluates the predicate
WokenPc(p, w, relock) == [u \in Threads |-> IF u \in w THEN relock ELSE p[u]]

(***************************************************************************)
(* The expressions of the synchronizer.                                    *)
(***************************************************************************)
\* line 117: the predicate of waitValueReady
ValueReadyPred == valueCount # 0

\* line 120: valueCount--
ValueDecrement_Missing == valueCount
ValueDecrement == valueCount - 1

\* line 124: the operation of notifyValueReady, valueCount = allCount
NotifyValueOp_OneShort == allCount - 1
NotifyValueOp_AtLeastOne == IF allCount = 0 THEN 1 ELSE allCount
NotifyValueOp == allCount

\* line 128: the predicate of waitGradReady
GradReadyPred_AnyContribution == gradCount # 0
GradReadyPred_AtLeast == gradCount >= allCount
GradReadyPred_NeedsContribution == gradCount = allCount /\ gradCount > 0
GradReadyPred == gradCount = allCount

\* line 129: gradCount = 0
GradReset == 0

\* line 133: gradCount++, on the value loaded
GradIncrement(v) == v + 1

\* line 112: allCount++, on the value loaded
CountIncrementOp_ByTwo(v) == v + 2
CountIncrementOp(v) == v + 1

(***************************************************************************)
(* A thread starts its next call.                                          *)
(***************************************************************************)
FirstPc(r) ==
    CASE r = "waitValue" -> "wv_lock"
      [] r = "notifyValue" -> "nv_lock"
      [] r = "waitGrad" -> "wg_lock"
      [] r = "notifyGrad" -> "ng_lock"
      [] r = "countIncrement" -> "ci_load"

\* the number of waitGradReady calls of thread 1 whose predicate has held
GradSatisfied == calls[1] + (IF pc[1] = "wg_reset" THEN 1 ELSE 0)

\* the threads that take part in the run besides thread 1
Active == {t \in Peers : role[t] # "none"}

\* A contributor's notifyGradReady of pass n+1 comes after the pass-n
\* predicate of waitGradReady has held: the backward pass of a layer starts
\* when the layers after it have contributed.  The consumers and the
\* producer of the value direction are not ordered by anything, unless the
\* caller separates the passes (passBarrier).
MayCall(t) ==
    /\ role[t] # "none"
    /\ calls[t] < limit[t]
    /\ role[t] = "notifyGrad" => calls[t] <= GradSatisfied
    /\ passBarrier => \A u \in Active \cup {1} : calls[u] >= calls[t]

Call(t) ==
    /\ pc[t] = "idle"
    /\ MayCall(t)
    /\ pc' = [pc EXCEPT ![t] = FirstPc(role[t])]
    /\ UNCHANGED <<counters, valueCond, gradCond, config, calls, tmp, released, descriptors>>

Return(p, c, t) ==
    /\ pc' = [p EXCEPT ![t] = "idle"]
    /\ calls' = [c EXCEPT ![t] = @ + 1]

(***************************************************************************)
(* waitValueReady, lines 116-121.                                          *)
(***************************************************************************)
\* line 117, LockedCondition::wait: take the mutex (on entry and after
\* every wake-up)
WaitValueLock(t) ==
    /\ pc[t] = "wv_lock"
    /\ MutexLock(valueMutex, valueMutex', t)
    /\ pc' = [pc EXCEPT ![t] = "wv_pred"]
    /\ UNCHANGED <<counters, valueWaiting, gradCond, config, calls, tmp, released, descriptors>>

\* line 117: evaluate the predicate under the mutex; return from wait (the
\* unique_lock is released) or suspend
WaitValuePred(t) ==
    /\ pc[t] = "wv_pred"
    /\ IF ValueReadyPred
         THEN /\ MutexUnlock(valueMutex, valueMutex', t)
              /\ pc' = [pc EXCEPT ![t] = "wv_guard"]
              /\ UNCHANGED valueWaiting
         ELSE /\ CondSuspend(valueMutex, valueMutex', valueWaiting, valueWaiting', t)
              /\ pc' = [pc EXCEPT ![t] = "wv_sleep"]
    /\ UNCHANGED <<counters, gradCond, config, calls, tmp, released, descriptors>>

\* line 119: std::lock_guard on the same mutex, taken again
WaitValueGuard(t) ==
    /\ pc[t] = "wv_guard"
    /\ MutexLock(valueMutex, valueMutex', t)
    /\ pc' = [pc EXCEPT ![t] = "wv_dec"]
    /\ UNCHANGED <<counters, valueWaiting, gradCond, config, calls, tmp, released, descriptors>>

\* lines 120-121: valueCount--, the guard is released, the call returns
WaitValueDec(t) ==
    /\ pc[t] = "wv_dec"
    /\ valueCount' = ValueDecrement
    /\ MutexUnlock(valueMutex, valueMutex', t)
    /\ Return(pc, calls, t)
    /\ released' = released + 1
    /\ UNCHANGED <<allCount, gradCount, valueWaiting, gradCond, config, tmp, descriptors>>

(***************************************************************************)
(* notifyValueReady, lines 123-125.                                        *)
(***************************************************************************)
NotifyValueLock(t) ==
    /\ pc[t] = "nv_lock"
    /\ MutexLock(valueMutex, valueMutex', t)
    /\ pc' = [pc EXCEPT ![t] = "nv_op"]
    /\ UNCHANGED <<counters, valueWaiting, gradCond, config, calls, tmp, released, descriptors>>

\* line 124: valueCount = allCount under the mutex, notify_all, release
NotifyValueSet(t) ==
    /\ pc[t] = "nv_op"
    /\ valueCount' = NotifyValueOp
    /\ MutexUnlock(valueMutex, valueMutex', t)
    /\ valueWaiting' = {}
    /\ Return(WokenPc(pc, valueWaiting, "wv_lock"), calls, t)
    /\ released' = 0
    /\ UNCHANGED <<allCount, gradCount, gradCond, config, tmp, descriptors>>

(***************************************************************************)
(* waitGradReady, lines 127-130.                                           *)
(***************************************************************************)
WaitGradLock(t) ==
    /\ pc[t] = "wg_lock"
    /\ MutexLock(gradMutex, gradMutex', t)
    /\ pc' = [pc EXCEPT ![t] = "wg_pred"]
    /\ UNCHANGED <<counters, valueCond, gradWaiting, config, calls, tmp, released, descriptors>>

\* line 128
WaitGradPred(t) ==
    /\ pc[t] = "wg_pred"
    /\ IF GradReadyPred
         THEN /\ MutexUnlock(gradMutex, gradMutex', t)
              /\ pc' = [pc EXCEPT ![t] = "wg_reset"]
              /\ UNCHANGED gradWaiting
         ELSE /\ CondSuspend(gradMutex, gradMutex', gradWaiting, gradWaiting', t)
              /\ pc' = [pc EXCEPT ![t] = "wg_sleep"]
    /\ UNCHANGED <<counters, valueCond, config, calls, tmp, released, descriptors>>

\* line 129: gradCount = 0, after wait has returned and released the
\* mutex: a plain store that no lock orders with gradCount++
WaitGradReset(t) ==
    /\ pc[t] = "wg_reset"
    /\ gradCount' = GradReset
    /\ Return(pc, calls, t)
    /\ UNCHANGED <<allCount, valueCount, valueCond, gradCond, config, tmp, released, descriptors>>

(***************************************************************************)
(* notifyGradReady, lines 132-134.  gradCount++ is a load and a store of a *)
(* plain int; both happen under the mutex, but the store of line 129 is    *)
(* not under it and may fall before, between or after them.                *)
(***************************************************************************)
NotifyGradLock_WaitsForReset(t) ==
    /\ pc[t] = "ng_lock"
    /\ gradCount # allCount
    /\ MutexLock(gradMutex, gradMutex', t)
    /\ pc' = [pc EXCEPT ![t] = "ng_load"]
    /\ UNCHANGED <<counters, valueCond, gradWaiting, config, calls, tmp, released, descriptors>>
NotifyGradLock(t) ==
    /\ pc[t] = "ng_lock"
    /\ MutexLock(gradMutex, gradMutex', t)
    /\ pc' = [pc EXCEPT ![t] = "ng_load"]
    /\ UNCHANGED <<counters, valueCond, gradWaiting, config, calls, tmp, released, descriptors>>

NotifyGradLoad(t) ==
    /\ pc[t] = "ng_load"
    /\ gradMutex = t
    /\ tmp' = [tmp EXCEPT ![t] = gradCount]
    /\ pc' = [pc EXCEPT ![t] = "ng_store"]
    /\ UNCHANGED <<counters, valueCond, gradCond, config, calls, released, descriptors>>

NotifyGradStore(t) ==
    /\ pc[t] = "ng_store"
    /\ gradCount' = GradIncrement(tmp[t])
    /\ tmp' = [tmp EXCEPT ![t] = 0]
    /\ MutexUnlock(gradMutex, gradMutex', t)
    /\ gradWaiting' = {}
    /\ Return(WokenPc(pc, gradWaiting, "wg_lock"), calls, t)
    /\ UNCHANGED <<allCount, valueCount, valueCond, config, released, descriptors>>

(***************************************************************************)
(* std::condition_variable::wait may wake without a notify; the waiter     *)
(* then takes the mutex and evaluates the predicate again.                 *)
(***************************************************************************)
SpuriousWakeValue(t) ==
    /\ pc[t] = "wv_sleep"
    /\ t \in valueWaiting
    /\ valueWaiting' = valueWaiting \ {t}
    /\ pc' = [pc EXCEPT ![t] = "wv_lock"]
    /\ UNCHANGED <<counters, valueMutex, gradCond, config, calls, tmp, released, descriptors>>

SpuriousWakeGrad(t) ==
    /\ pc[t] = "wg_sleep"
    /\ t \in gradWaiting
    /\ gradWaiting' = gradWaiting \ {t}
    /\ pc' = [pc EXCEPT ![t] = "wg_lock"]
    /\ UNCHANGED <<counters, valueCond, gradMutex, config, calls, tmp, released, descriptors>>


(***************************************************************************)
(* The descriptor as a value: struct Argument, lines 32-109.  A pointer    *)
(* member is Null or the handle of a shared storage object; two members    *)
(* holding the same handle refer to the same storage.                      *)
(***************************************************************************)
\* the number of storage objects a run may refer to
MaxHandles == 2
\* the number of member writes made before an operation is applied
MaxWrites == 2

\* nullptr
Null == 0
Handles == 1..MaxHandles

\* Matrix::getHeight / IVector::getSize / std::vector::size of the storage
\* object h: the objects have 0, 1, ... rows
Height(h) == h - 1

PointerFields ==
    {"in", "value", "ids", "grad", "strs", "sequenceStartPositions",
     "subSequenceStartPositions", "cpuSequenceDims", "udp"}

\* the members of the synchronizer (lines 104-105)
CounterFields == {"valueCount", "gradCount"}

\* lines 33-49: Argument()
DefaultArgument ==
    [in |-> Null, value |-> Null, ids |-> Null, grad |-> Null, strs |-> Null,
     frameHeight |-> 0, frameWidth |-> 0,
     sequenceStartPositions |-> Null, subSequenceStartPositions |-> Null,
     cpuSequenceDims |-> Null, udp |-> Null,
     deviceId |-> -1, allCount |-> 0, valueCount |-> 0, gradCount |-> 0,
     dataId |-> 0]

\* The members of an object whose constructor has no initializer list (line
\* 50), before the constructor's body runs: the shared_ptr members are
\* null, the integer members hold an indeterminate value g.
Indeterminate == {-1, 0, 1}
FreshArgument(g) ==
    [f \in DOMAIN DefaultArgument |->
        IF f \in PointerFields THEN Null ELSE g]

\* the values a caller writes into member f
FieldValues(f) ==
    CASE f \in PointerFields -> Handles \cup {Null}
      [] f \in {"frameHeight", "frameWidth", "dataId", "allCount"} -> 0..1
      [] f = "deviceId" -> -1..0
      [] f \in CounterFields -> -1..1

\* lines 58-73: operator=, on the object self
OperatorAssign_CopiesCounters(self, argument) == argument
OperatorAssign(self, argument) ==
    [self EXCEPT
        !.in = argument.in,
        !.value = argument.value,
        !.ids = argument.ids,
        !.grad = argument.grad,
        !.strs = argument.strs,
        !.sequenceStartPositions = argument.sequenceStartPositions,
        !.subSequenceStartPositions = argument.subSequenceStartPositions,
        !.cpuSequenceDims = argument.cpuSequenceDims,
        !.udp = argument.udp,
        !.deviceId = argument.deviceId,
        !.allCount = argument.allCount,
        !.frameHeight = argument.frameHeight,
        !.frameWidth = argument.frameWidth,
        !.dataId = argument.dataId]

\* lines 50-55: Argument(const Argument&), on the fresh object self
CopyConstructor_NoReset(self, argument) == OperatorAssign(self, argument)
CopyConstructor(self, argument) ==
    [OperatorAssign(self, argument) EXCEPT
        !.valueCount = 0,
        !.gradCount = 0,
        !.dataId = argument.dataId]

\* lines 136-144: getBatchSize
getBatchSize_GradBeforeIds(a) ==
    IF a.value # Null THEN Height(a.value)
    ELSE IF a.grad # Null THEN Height(a.grad)
    ELSE IF a.ids # Null THEN Height(a.ids)
    ELSE IF a.in # Null THEN Height(a.in)
    ELSE IF a.udp # Null THEN Height(a.udp)
    ELSE IF a.strs # Null THEN Height(a.strs)
    ELSE 0
getBatchSize(a) ==
    IF a.value # Null THEN Height(a.value)
    ELSE IF a.ids # Null THEN Height(a.ids)
    ELSE IF a.grad # Null THEN Height(a.grad)
    ELSE IF a.in # Null THEN Height(a.in)
    ELSE IF a.udp # Null THEN Height(a.udp)
    ELSE IF a.strs # Null THEN Height(a.strs)
    ELSE 0

\* lines 150-153: getNumSequences
getNumSequences_WholeLength(a) ==
    IF a.sequenceStartPositions # Null
    THEN Height(a.sequenceStartPositions)
    ELSE getBatchSize(a)
getNumSequences(a) ==
    IF a.sequenceStartPositions # Null
    THEN Height(a.sequenceStartPositions) - 1
    ELSE getBatchSize(a)

\* lines 155-159: getNumSubSequences
getNumSubSequences(a) ==
    IF a.subSequenceStartPositions # Null
    THEN Height(a.subSequenceStartPositions) - 1
    ELSE getBatchSize(a)

\* line 161: hasSubseq
hasSubseq(a) == a.subSequenceStartPositions # Null

\* p->getData(false) on the shared_ptr p (lines 164-165): the host data of
\* the vector p refers to.  The call through a null p is undefined
\* behaviour: the process is stopped by the fault, or the call returns
\* whatever address the build computes.
GetData(p) ==
    IF p # Null
    THEN {[outcome |-> "value", data |-> p]}
    ELSE {[outcome |-> "crash", data |-> Null]}
         \cup {[outcome |-> "value", data |-> q] : q \in Handles \cup {Null}}

\* lines 163-166: getCpuStartPositions, the set of its possible outcomes
getCpuStartPositions(a) ==
    IF hasSubseq(a)
    THEN GetData(a.subSequenceStartPositions)
    ELSE GetData(a.sequenceStartPositions)

(***************************************************************************)
(* Single-threaded runs on two descriptors a and b: the caller writes      *)
(* members, then applies one operation; ret keeps the operation, its       *)
(* operands before and after, and its result.                              *)
(***************************************************************************)
Names == {"a", "b"}

\* no operation applied yet
NoRet == [op |-> "none"]

\* a write of a public member of descriptor d
WriteMember(d, f, v) ==
    /\ ret.op = "none"
    /\ writes < MaxWrites
    /\ args[d][f] # v
    /\ args' = [args EXCEPT ![d][f] = v]
    /\ writes' = writes + 1
    /\ UNCHANGED ret

\* Argument c(args[s]);
CopyConstruct(s) ==
    /\ ret.op = "none"
    /\ \E g \in Indeterminate :
          ret' = [op |-> "copy", src |-> s,
                  dstBefore |-> FreshArgument(g), srcBefore |-> args[s],
                  dstAfter |-> CopyConstructor(FreshArgument(g), args[s]),
                  srcAfter |-> args[s]]
    /\ UNCHANGED <<args, writes>>

\* args[d] = args[s];
Assign(d, s) ==
    /\ ret.op = "none"
    /\ args' = [args EXCEPT ![d] = OperatorAssign(args[d], args[s])]
    /\ ret' = [op |-> "assign", dst |-> d, src |-> s,
               dstBefore |-> args[d], srcBefore |-> args[s],
               dstAfter |-> args'[d], srcAfter |-> args'[s]]
    /\ UNCHANGED writes

\* args[s].getBatchSize()
GetBatchSize(s) ==
    /\ ret.op = "none"
    /\ ret' = [op |-> "getBatchSize", src |-> s,
               srcBefore |-> args[s], srcAfter |-> args[s],
               val |-> getBatchSize(args[s])]
    /\ UNCHANGED <<args, writes>>

\* args[s].getNumSequences()
GetNumSequences(s) ==
    /\ ret.op = "none"
    /\ ret' = [op |-> "getNumSequences", src |-> s,
               srcBefore |-> args[s], srcAfter |-> args[s],
               val |-> getNumSequences(args[s])]
    /\ UNCHANGED <<args, writes>>

\* args[s].getNumSubSequences()
GetNumSubSequences(s) ==
    /\ ret.op = "none"
    /\ ret' = [op |-> "getNumSubSequences", src |-> s,
               srcBefore |-> args[s], srcAfter |-> args[s],
               val |-> getNumSubSequences(args[s])]
    /\ UNCHANGED <<args, writes>>

\* args[s].getCpuStartPositions()
GetCpuStartPositions(s) ==
    /\ ret.op = "none"
    /\ \E o \in getCpuStartPositions(args[s]) :
          ret' = [op |-> "getCpuStartPositions", src |-> s,
                  srcBefore |-> args[s], srcAfter |-> args[s],
                  outcome |-> o.outcome, val |-> o.data]
    /\ UNCHANGED <<args, writes>>

(***************************************************************************)
(* The runs.                                                               *)
(***************************************************************************)
\* the state of the descriptor's synchronizer after construction (lines
\* 46-48) and allCount raised to k, with no thread inside a call
InitSync(k) ==
    /\ allCount = k
    /\ valueCount = 0
    /\ gradCount = 0
    /\ valueMutex = Unlocked
    /\ gradMutex = Unlocked
    /\ valueWaiting = {}
    /\ gradWaiting = {}
    /\ calls = [t \in Threads |-> 0]
    /\ pc = [t \in Threads |-> "idle"]
    /\ tmp = [t \in Threads |-> 0]
    /\ released = 0

\* thread 1 makes p calls of `single`, the first n peers p calls of `peer`
InitRoles(single, peer, n, p) ==
    /\ role = [t \in Threads |-> IF t = 1 THEN single
                                 ELSE IF t <= n + 1 THEN peer ELSE "none"]
    /\ limit = [t \in Threads |-> IF t <= n + 1 THEN p ELSE 0]

\* two default-constructed descriptors, no operation applied
InitArgs ==
    /\ args = [d \in Names |-> DefaultArgument]
    /\ ret = NoRet
    /\ writes = 0

\* the runs of the synchronizer use no other descriptor than the shared one
NoArgs ==
    /\ args = <<>>
    /\ ret = NoRet
    /\ writes = 0

\* The value direction: a producer and n consumers of p passes each, the
\* passes separated by the caller or not.  One pass is run with
\* any number of peers, several passes with as many peers as allCount.
InitValue ==
    \E k \in 0..MaxAll, n \in 0..NumPeers, p \in 1..MaxPasses :
        /\ p > 1 => n = k
        /\ InitSync(k)
        /\ InitRoles("notifyValue", "waitValue", n, p)
        /\ passBarrier \in (IF p > 1 THEN BOOLEAN ELSE {FALSE})
        /\ NoArgs

\* The grad direction: the waiting layer and n contributors, p passes each.
InitGrad ==
    \E k \in 0..MaxAll, n \in 0..NumPeers, p \in 1..MaxPasses :
        /\ p > 1 => n = k
        /\ InitSync(k)
        /\ InitRoles("waitGrad", "notifyGrad", n, p)
        /\ passBarrier = FALSE
        /\ NoArgs

Init == InitValue \/ InitGrad

ThreadStep(t) ==
    \/ Call(t)
    \/ WaitValueLock(t)
    \/ WaitValuePred(t)
    \/ WaitValueGuard(t)
    \/ WaitValueDec(t)
    \/ NotifyValueLock(t)
    \/ NotifyValueSet(t)
    \/ WaitGradLock(t)
    \/ WaitGradPred(t)
    \/ WaitGradReset(t)
    \/ NotifyGradLock(t)
    \/ NotifyGradLoad(t)
    \/ NotifyGradStore(t)
    \/ SpuriousWakeValue(t)
    \/ SpuriousWakeGrad(t)

Next == \E t \in Threads : ThreadStep(t)

\* every interleaving of the threads' steps
Spec == Init /\ [][Next]_vars

\* A thread that can take a step takes it; a thread that asks for a mutex
\* gets it if the mutex is free again and again.  A spurious wake-up may
\* never happen.
RunStep(t) ==
    \/ Call(t)
    \/ WaitValuePred(t)
    \/ WaitValueDec(t)
    \/ NotifyValueSet(t)
    \/ WaitGradPred(t)
    \/ WaitGradReset(t)
    \/ NotifyGradLoad(t)
    \/ NotifyGradStore(t)

LockStep(t) ==
    \/ WaitValueLock(t)
    \/ WaitValueGuard(t)
    \/ NotifyValueLock(t)
    \/ WaitGradLock(t)
    \/ NotifyGradLock(t)

Fairness ==
    \A t \in Threads : WF_vars(RunStep(t)) /\ SF_vars(LockStep(t))

FairSpec == Spec /\ Fairness

(***************************************************************************)
(* countIncrement, line 112, and the runs in which the two directions and  *)
(* countIncrement act on the one descriptor together.                      *)
(***************************************************************************)
\* line 112, allCount++: the load (no lock is taken)
CountIncrementLoad(t) ==
    /\ pc[t] = "ci_load"
    /\ tmp' = [tmp EXCEPT ![t] = allCount]
    /\ pc' = [pc EXCEPT ![t] = "ci_store"]
    /\ UNCHANGED <<counters, valueCond, gradCond, config, calls, released, descriptors>>

\* line 112, allCount++: the store, and the return
CountIncrementStore(t) ==
    /\ pc[t] = "ci_store"
    /\ allCount' = CountIncrementOp(tmp[t])
    /\ tmp' = [tmp EXCEPT ![t] = 0]
    /\ Return(pc, calls, t)
    /\ UNCHANGED <<valueCount, gradCount, valueCond, gradCond, config, released, descriptors>>

\* Thread 1 makes p calls of notifyValueReady, thread 2 one call of
\* waitValueReady, thread 3 one call of countIncrement or of waitGradReady,
\* and n more threads one call of notifyGradReady each.
InitMixed ==
    \E k \in 0..MaxAll, p \in 1..MaxPasses, n \in 0..(NumPeers - 2),
       third \in {"countIncrement", "waitGrad"} :
        /\ InitSync(k)
        /\ role = [t \in Threads |->
                     IF t = 1 THEN "notifyValue"
                     ELSE IF t = 2 THEN "waitValue"
                     ELSE IF t = 3 THEN third
                     ELSE IF t <= 3 + n THEN "notifyGrad" ELSE "none"]
        /\ limit = [t \in Threads |->
                      IF t = 1 THEN p ELSE IF t <= 3 + n THEN 1 ELSE 0]
        /\ passBarrier = FALSE
        /\ NoArgs

NextMixed ==
    \E t \in Threads :
        \/ ThreadStep(t)
        \/ CountIncrementLoad(t)
        \/ CountIncrementStore(t)

MixedSpec == InitMixed /\ [][NextMixed]_vars

\* The single-threaded runs.
InitArg ==
    /\ InitSync(0)
    /\ role = [t \in Threads |-> "none"]
    /\ limit = [t \in Threads |-> 0]
    /\ passBarrier = FALSE
    /\ InitArgs

NextArg ==
    /\ UNCHANGED <<counters, valueCond, gradCond, config, calls, pc, tmp, released>>
    /\ \/ \E d \in Names, f \in DOMAIN DefaultArgument :
             \E v \in FieldValues(f) : WriteMember(d, f, v)
       \/ \E s \in Names : CopyConstruct(s)
       \/ \E d \in Names, s \in Names : Assign(d, s)
       \/ \E s \in Names : GetBatchSize(s)
       \/ \E s \in Names : GetNumSequences(s)
       \/ \E s \in Names : GetNumSubSequences(s)
       \/ \E s \in Names : GetCpuStartPositions(s)

ArgSpec == InitArg /\ [][NextArg]_vars

(***************************************************************************)
(* The structural operators declared at lines 223-251.  Their bodies are   *)
(* in Argument.cpp; they are written here after their description.  In     *)
(* these runs a boundary-vector member holds the contents of the vector it *)
(* refers to, NoVector when it is null, and the value member of a          *)
(* descriptor of r rows is the handle r + 1 (Height(r + 1) = r).           *)
(***************************************************************************)
\* the longest list given to splitByDataId, and the largest dataId in it
MaxList == 5
MaxDataId == 2
\* the most rows of a source of concat, the most sequences in it, and the
\* most sources
MaxRows == 5
MaxSeqs == 2
MaxSources == 2

\* a null boundary-vector member; a vector that is present has its entry 0
NoVector == <<>>

\* Argument() in these runs
EmptyArgument ==
    [DefaultArgument EXCEPT
        !.sequenceStartPositions = NoVector,
        !.subSequenceStartPositions = NoVector]

\* the sum of the numbers in the sequence q
RECURSIVE Sum(_)
Sum(q) == IF q = <<>> THEN 0 ELSE Head(q) + Sum(Tail(q))

\* the sequences in the sequence of sequences q, one after the other
RECURSIVE Flatten(_)
Flatten(q) == IF q = <<>> THEN <<>> ELSE Head(q) \o Flatten(Tail(q))

\* the values of the sequence q
Range(q) == {q[i] : i \in DOMAIN q}

\* the strictly increasing vectors from 0 with at most n further entries,
\* none above r
Boundaries(n, r) ==
    {q \in UNION {[1..l -> 0..r] : l \in 1..(n + 1)} :
        /\ q[1] = 0
        /\ \A i \in 1..(Len(q) - 1) : q[i] < q[i + 1]}

\* lines 235-239: splitByDataId.  A descriptor opens a group when it is the
\* first of the list or its dataId is below the one before it.
StartsGroup_OnChange(argus, i) ==
    i = 1 \/ argus[i].dataId # argus[i - 1].dataId
StartsGroup(argus, i) ==
    i = 1 \/ argus[i].dataId < argus[i - 1].dataId

RECURSIVE splitFrom(_, _, _)
splitFrom(argus, i, arguGroups) ==
    IF i > Len(argus) THEN arguGroups
    ELSE splitFrom(argus, i + 1,
             IF StartsGroup(argus, i)
             THEN Append(arguGroups, <<argus[i]>>)
             ELSE [arguGroups EXCEPT
                      ![Len(arguGroups)] = Append(@, argus[i])])

splitByDataId(argus) == splitFrom(argus, 1, <<>>)

\* a list of descriptors with the data ids ds, each with its own storage
ArgumentList(ds) ==
    [i \in DOMAIN ds |->
        [EmptyArgument EXCEPT !.dataId = ds[i], !.value = i]]

\* Argument::splitByDataId(args, &groups)
SplitByDataId ==
    /\ ret.op = "none"
    /\ ret' = [op |-> "splitByDataId", argus |-> args,
               arguGroups |-> splitByDataId(args)]
    /\ UNCHANGED <<args, writes>>

\* lines 228-233: concat(src).  The rows of the sources follow each other
\* in the result; the boundaries of a source after its first are appended,
\* moved by the number of rows before the source.
ShiftedBoundaries_NoOffset(starts, offset) ==
    [j \in 1..(Len(starts) - 1) |-> starts[j + 1]]
ShiftedBoundaries(starts, offset) ==
    [j \in 1..(Len(starts) - 1) |-> starts[j + 1] + offset]

RECURSIVE concatFrom(_, _, _, _)
concatFrom(src, i, rows, starts) ==
    IF i > Len(src)
    THEN [EmptyArgument EXCEPT
             !.value = rows + 1,
             !.sequenceStartPositions =
                 IF src[1].sequenceStartPositions # NoVector THEN starts ELSE NoVector]
    ELSE concatFrom(src, i + 1, rows + getBatchSize(src[i]),
             IF src[i].sequenceStartPositions # NoVector
             THEN starts \o ShiftedBoundaries(src[i].sequenceStartPositions, rows)
             ELSE starts)

concat(src) == concatFrom(src, 1, 0, <<0>>)

\* a descriptor of r rows with the sequence boundaries q (or none)
Source(r, q) ==
    [EmptyArgument EXCEPT !.value = r + 1, !.sequenceStartPositions = q]

\* the descriptors with sequence boundaries from 0 to their number of rows
SequenceSources ==
    {Source(q[Len(q)], q) : q \in Boundaries(MaxSeqs, MaxRows)}
\* the descriptors without sequence structure
PlainSources == {Source(r, NoVector) : r \in 0..MaxRows}

\* dst.concat(args)
Concat ==
    /\ ret.op = "none"
    /\ Len(args) >= 1
    /\ ret' = [op |-> "concat", src |-> args, dst |-> concat(args)]
    /\ UNCHANGED <<args, writes>>

\* lines 247-251: checkSubset.  The sub-sequence boundaries refine the
\* sequence boundaries when the sequence boundaries are met one after the
\* other on a walk along the sub-sequence boundaries.
RECURSIVE refinesFrom(_, _, _, _)
refinesFrom(seqStarts, subStarts, i, j) ==
    IF i > Len(seqStarts) THEN TRUE
    ELSE IF j > Len(subStarts) THEN FALSE
    ELSE IF subStarts[j] = seqStarts[i]
         THEN refinesFrom(seqStarts, subStarts, i + 1, j + 1)
         ELSE refinesFrom(seqStarts, subStarts, i, j + 1)

checkSubset_ComparesCounts(a) ==
    IF Len(a.sequenceStartPositions) <= Len(a.subSequenceStartPositions)
    THEN "ok" ELSE "InvariantViolation"
checkSubset(a) ==
    IF refinesFrom(a.sequenceStartPositions, a.subSequenceStartPositions, 1, 1)
    THEN "ok" ELSE "InvariantViolation"

\* args[1].checkSubset(), on a descriptor that has both vectors
CheckSubset ==
    /\ ret.op = "none"
    /\ Len(args) = 1
    /\ args[1].sequenceStartPositions # NoVector
    /\ args[1].subSequenceStartPositions # NoVector
    /\ ret' = [op |-> "checkSubset", srcBefore |-> args[1],
               srcAfter |-> args[1], outcome |-> checkSubset(args[1])]
    /\ UNCHANGED <<args, writes>>

\* the lists of descriptors that differ in their data ids
InitSplit ==
    args \in {ArgumentList(ds) :
                ds \in UNION {[1..n -> 0..MaxDataId] : n \in 0..MaxList}}

\* the lists of sources, all with sequence boundaries or all without
InitConcat ==
    \E n \in 1..MaxSources :
        args \in [1..n -> SequenceSources] \cup [1..n -> PlainSources]

\* one descriptor with both boundary vectors
InitSubset ==
    \E q \in Boundaries(MaxSeqs, MaxRows),
       u \in Boundaries(2 * MaxSeqs, MaxRows) :
        args = <<[Source(q[Len(q)], q) EXCEPT
                     !.subSequenceStartPositions = u]>>

InitStruct ==
    /\ InitSync(0)
    /\ role = [t \in Threads |-> "none"]
    /\ limit = [t \in Threads |-> 0]
    /\ passBarrier = FALSE
    /\ ret = NoRet
    /\ writes = 0
    /\ InitSplit \/ InitConcat \/ InitSubset

NextStruct ==
    /\ UNCHANGED <<counters, valueCond, gradCond, config, calls, pc, tmp, released>>
    /\ \/ SplitByDataId
       \/ Concat
       \/ CheckSubset

StructSpec == InitStruct /\ [][NextStruct]_vars

(***************************************************************************)
(* Properties of the readiness synchronizer.                               *)
(***************************************************************************)
ValueRun == role[1] = "notifyValue"
GradRun == role[1] = "waitGrad"

\* as many consumers / contributors take part as allCount says
Matched == Cardinality(Active) = allCount

\* every call of the run has returned
AllReturned == \A t \in Threads : calls[t] = limit[t]

\* the peers whose first call has returned
Finished == {t \in Active : calls[t] >= 1}

\* no thread can take a step but a spurious wake-up
Quiescent ==
    \A t \in Threads :
        /\ pc[t] \in {"idle", "wv_sleep", "wg_sleep"}
        /\ pc[t] = "idle" => ~MayCall(t)

\* C1: with allCount = k >= 1 and valueCount = 0, one notifyValueReady()
\* and k waitValueReady() calls, interleaved in any way, end with all k
\* waits returned and valueCount = 0.
C1_ForwardCompletion ==
    (ValueRun /\ limit[1] = 1 /\ allCount >= 1 /\ Matched)
        => <>[](AllReturned /\ valueCount = 0)

C1_Witness ==
    /\ ValueRun /\ limit[1] = 1 /\ allCount = 2 /\ Matched
    /\ AllReturned /\ valueCount = 0

\* C2: between one notifyValueReady() and the next, at most allCount
\* waitValueReady() calls return, however many threads are waiting.
C2_AtMostAllCountReleased ==
    ValueRun => released <= allCount

\* C3: with allCount = k >= 1 and gradCount = 0, waitGradReady() is not
\* satisfied and does not return before k notifyGradReady() calls have
\* completed, it returns once k have completed, and gradCount = 0 when it
\* has returned.
C3_BackwardProtocol ==
    (GradRun /\ limit[1] = 1 /\ allCount >= 1 /\ Matched)
        => /\ [](GradSatisfied >= 1 => Cardinality(Finished) = allCount)
           /\ [](calls[1] = 1 => gradCount = 0)
           /\ (Cardinality(Finished) = allCount) ~> (calls[1] = 1)

C3_Witness ==
    /\ GradRun /\ limit[1] = 1 /\ allCount = 2 /\ Matched
    /\ calls[1] = 1 /\ gradCount = 0

\* a consumer's waitValueReady of pass calls[c]+1 has found its predicate
\* true or has returned, only when the producer's notifyValueReady of that
\* pass has happened
OrderedWithProducer ==
    \A c \in Active :
        /\ calls[c] <= calls[1]
        /\ pc[c] \in {"wv_guard", "wv_dec"} => calls[c] + 1 <= calls[1]

\* the producer notifies once per pass and each of the allCount = k >= 1
\* consumers waits once per pass
ConsumerRun == ValueRun /\ allCount >= 1 /\ Matched

\* the passes do not overlap: there is one pass, or no thread starts its
\* call of the next pass before every call of this pass has returned
PassesSeparated == passBarrier \/ limit[1] = 1

\* C4 as stated: over repeated passes, with the threads not synchronized
\* otherwise, no consumer's pass-n waitValueReady() returns before the
\* producer's pass-n notifyValueReady() has happened.
C4_OrderedEveryPass ==
    ConsumerRun => \A c \in Active : calls[c] <= calls[1]

\* C4 as amended: the same, when the passes do not overlap; a waiter whose
\* predicate is evaluated before that pass's notify does not get past it.
C4_OrderedWhenSeparated ==
    (ConsumerRun /\ PassesSeparated) => OrderedWithProducer

C4_Witness ==
    /\ ConsumerRun /\ passBarrier /\ allCount = 2
    /\ calls[1] = 2 /\ \A c \in Active : calls[c] = 2

\* C5: over repeated passes of k notifyGradReady() calls and one
\* waitGradReady() call each, every pass's waitGradReady() returns: once
\* all contributors have made all their calls, the waiting layer has
\* returned from its last call, or is about to (its predicate has held or
\* holds now) -- nothing else can change gradCount any more.
C5_GradRearmed ==
    (GradRun /\ allCount >= 1 /\ Matched
        /\ \A t \in Active : calls[t] = limit[t])
        => (calls[1] = limit[1] \/ pc[1] = "wg_reset" \/ GradReadyPred)

\* waitGradReady has been called, its predicate has not held, and more
\* notifyGradReady calls than allCount have been counted
StuckGrad ==
    /\ GradRun
    /\ pc[1] \in {"wg_lock", "wg_pred", "wg_sleep"}
    /\ gradCount > allCount

\* C8 as stated, for the calls of one pass: when the threads have come to
\* rest and the number of peers differs from allCount, some wait call is
\* suspended (and with more notifyGradReady calls than allCount counted
\* before waitGradReady checks, waitGradReady stays blocked).
C8_MismatchBlocks ==
    /\ [](Quiescent /\ limit[1] = 1 /\ Active # {} /\ ~Matched
             => \E t \in Threads : pc[t] \in {"wv_sleep", "wg_sleep"})
    /\ [][StuckGrad => StuckGrad']_vars

\* C8 as amended: with fewer notifyGradReady calls than allCount the
\* predicate of waitGradReady never holds; with more counted before
\* waitGradReady checks, waitGradReady stays blocked; with fewer
\* waitValueReady callers than allCount no wait is blocked once the notify
\* has happened, and valueCount stays positive.  (With more callers than
\* allCount nothing is guaranteed: see C2.)
C8_MismatchAmended ==
    /\ []((GradRun /\ Cardinality(Active) < allCount) => GradSatisfied = 0)
    /\ [][StuckGrad => StuckGrad']_vars
    /\ []((ValueRun /\ limit[1] = 1 /\ Cardinality(Active) < allCount
              /\ calls[1] = 1)
            => /\ valueCount >= allCount - Cardinality(Active)
               /\ valueCount > 0
               /\ \A t \in Threads : pc[t] # "wv_sleep")

C8_Witness ==
    /\ ValueRun /\ limit[1] = 1 /\ allCount = 2 /\ Cardinality(Active) = 1
    /\ AllReturned /\ valueCount = 1

\* C9: a thread inside notifyValueReady() or notifyGradReady() is never
\* suspended on a condition, and under fair lock acquisition its call
\* returns, whatever the counters are and whoever is blocked: the calls of
\* a run being finitely many, from some point on no thread is inside one.
NotifyPcs == {"nv_lock", "nv_op", "ng_lock", "ng_load", "ng_store"}

C9_NotifyCompletes ==
    /\ [](\A t \in Threads :
            role[t] \in {"notifyValue", "notifyGrad"}
                => t \notin valueWaiting \cup gradWaiting)
    /\ <>[](\A t \in Threads : pc[t] \notin NotifyPcs)

\* notifyValueReady holds the mutex and is about to set valueCount while
\* two consumers are suspended
C9_Witness ==
    /\ ValueRun /\ pc[1] = "nv_op" /\ valueMutex = 1
    /\ Cardinality(valueWaiting) >= 2

(***************************************************************************)
(* Properties of the descriptor as a value.                                *)
(***************************************************************************)
\* the members that are not synchronization state
OtherFields == DOMAIN DefaultArgument \ CounterFields

\* C6: the copy of any descriptor has valueCount = 0 and gradCount = 0
\* whatever the source's counters are, every other member equal to the
\* source's (a pointer member refers to the same storage), and the source
\* is unchanged.
C6_CopyResetsCounters ==
    ret.op = "copy" =>
        /\ ret.dstAfter.valueCount = 0
        /\ ret.dstAfter.gradCount = 0
        /\ \A f \in OtherFields : ret.dstAfter[f] = ret.srcBefore[f]
        /\ ret.srcAfter = ret.srcBefore

C6_Witness ==
    /\ ret.op = "copy"
    /\ ret.srcBefore.valueCount # 0
    /\ ret.srcBefore.value # Null
    /\ ret.dstAfter.value = ret.srcBefore.value
    /\ ret.dstAfter.valueCount = 0

\* C7 as stated: after a = b, a.valueCount = 0 and a.gradCount = 0
\* whatever counters a and b held.
C7_AssignResetsCounters ==
    ret.op = "assign" =>
        /\ ret.dstAfter.valueCount = 0
        /\ ret.dstAfter.gradCount = 0

\* C7 as amended: after a = b, a.valueCount and a.gradCount are what a
\* held before the assignment, whatever b's counters are, and b's
\* counters are unchanged.
C7_AssignKeepsCounters ==
    ret.op = "assign" =>
        /\ ret.dstAfter.valueCount = ret.dstBefore.valueCount
        /\ ret.dstAfter.gradCount = ret.dstBefore.gradCount
        /\ ret.srcAfter.valueCount = ret.srcBefore.valueCount
        /\ ret.srcAfter.gradCount = ret.srcBefore.gradCount

C7_Witness ==
    /\ ret.op = "assign"
    /\ ret.dst # ret.src
    /\ ret.dstBefore.valueCount = 1
    /\ ret.srcBefore.valueCount = -1
    /\ ret.dstAfter.valueCount = 1

\* the order in which the claim ranks the six row-bearing members
Priority == <<"value", "ids", "grad", "in", "udp", "strs">>

\* C10: getBatchSize() is the row count of the first present member in
\* the order value, ids, grad, in, udp, strs, whatever the row counts of
\* the members after it, and 0 when none of the six is present.
C10_BatchSizeFirstPresent ==
    ret.op = "getBatchSize" =>
        LET a == ret.srcBefore
            present == {i \in DOMAIN Priority : a[Priority[i]] # Null}
            first == CHOOSE i \in present : \A j \in present : i <= j
        IN  ret.val = IF present = {} THEN 0 ELSE Height(a[Priority[first]])

C10_Witness ==
    /\ ret.op = "getBatchSize"
    /\ ret.srcBefore.value = Null
    /\ ret.srcBefore.ids # Null
    /\ ret.srcBefore.grad # Null
    /\ Height(ret.srcBefore.ids) # Height(ret.srcBefore.grad)
    /\ ret.val = Height(ret.srcBefore.ids)

\* C11: getNumSequences() is one less than the length of
\* sequenceStartPositions when that vector is present, whatever the row
\* counts of value, ids and grad, and getBatchSize() when it is absent;
\* getNumSubSequences() is the same with subSequenceStartPositions.
C11_NumSequences ==
    /\ ret.op = "getNumSequences" =>
          LET S == ret.srcBefore.sequenceStartPositions
          IN  /\ S # Null => ret.val + 1 = Height(S)
              /\ S = Null => ret.val = getBatchSize(ret.srcBefore)
    /\ ret.op = "getNumSubSequences" =>
          LET S == ret.srcBefore.subSequenceStartPositions
          IN  /\ S # Null => ret.val + 1 = Height(S)
              /\ S = Null => ret.val = getBatchSize(ret.srcBefore)
    /\ ret.op \in {"getNumSequences", "getNumSubSequences"} =>
          ret.srcAfter = ret.srcBefore

\* a boundary vector of length 1 (no sequence) beside a value of 1 row
C11_Witness ==
    /\ ret.op = "getNumSequences"
    /\ ret.srcBefore.sequenceStartPositions # Null
    /\ ret.srcBefore.value # Null
    /\ Height(ret.srcBefore.sequenceStartPositions) = 1
    /\ getBatchSize(ret.srcBefore) = 1
    /\ ret.val = 0

\* C12: getCpuStartPositions() gives the data of subSequenceStartPositions
\* when that vector is present, else the data of sequenceStartPositions,
\* and fails without returning a value when neither is present.
C12_StartPositionsOrFailure ==
    ret.op = "getCpuStartPositions" =>
        LET a == ret.srcBefore
        IN  /\ a.subSequenceStartPositions # Null =>
                  /\ ret.outcome = "value"
                  /\ ret.val = a.subSequenceStartPositions
            /\ (a.subSequenceStartPositions = Null
                   /\ a.sequenceStartPositions # Null) =>
                  /\ ret.outcome = "value"
                  /\ ret.val = a.sequenceStartPositions
            /\ (a.subSequenceStartPositions = Null
                   /\ a.sequenceStartPositions = Null) =>
                  ret.outcome # "value"

(***************************************************************************)
(* Properties of the structural operators.                                 *)
(***************************************************************************)
\* the data ids of a list of descriptors
DataIds(q) == [i \in DOMAIN q |-> q[i].dataId]

\* the position in the list at which group k of the groups g begins
GroupStart(g, k) == 1 + Sum([j \in 1..(k - 1) |-> Len(g[j])])

\* C13: splitByDataId cuts the list into consecutive groups: a group
\* begins exactly at the first position and at each position whose dataId
\* is below the one before it, the groups one after the other are the
\* list, and the data ids 0,1,2,0,1 give the groups 0,1,2 and 0,1.
C13_SplitByDataId ==
    ret.op = "splitByDataId" =>
        LET g == ret.arguGroups
            l == ret.argus
        IN  /\ Flatten(g) = l
            /\ \A k \in DOMAIN g : g[k] # <<>>
            /\ {GroupStart(g, k) : k \in DOMAIN g}
                  = {i \in DOMAIN l : i = 1 \/ l[i].dataId < l[i - 1].dataId}
            /\ DataIds(l) = <<0, 1, 2, 0, 1>> =>
                  [k \in DOMAIN g |-> DataIds(g[k])] = <<<<0, 1, 2>>, <<0, 1>>>>

C13_Witness ==
    /\ ret.op = "splitByDataId"
    /\ DataIds(ret.argus) = <<0, 1, 2, 0, 1>>
    /\ Len(ret.arguGroups) = 2

\* the rows before source i, and the boundaries appended before source i
RowsBefore(src, i) == Sum([k \in 1..(i - 1) |-> getBatchSize(src[k])])
EntriesBefore(src, i) ==
    1 + Sum([k \in 1..(i - 1) |-> Len(src[k].sequenceStartPositions) - 1])

\* C14: concat of whole descriptors has as many rows as the sources
\* together; its sequence boundaries are those of the sources, each moved
\* by the rows before its source, so they begin at 0, never decrease and
\* end at the total; boundaries 0,4 and 0,5 give 0,4,9.
C14_Concat ==
    ret.op = "concat" =>
        LET src == ret.src
            S == ret.dst.sequenceStartPositions
            total == Sum([k \in DOMAIN src |-> getBatchSize(src[k])])
        IN  /\ getBatchSize(ret.dst) = total
            /\ (\A k \in DOMAIN src : src[k].sequenceStartPositions # NoVector) =>
                  /\ S # NoVector
                  /\ S[1] = 0
                  /\ S[Len(S)] = total
                  /\ \A j \in 1..(Len(S) - 1) : S[j] <= S[j + 1]
                  /\ Len(S) = EntriesBefore(src, Len(src) + 1)
                  /\ \A i \in DOMAIN src :
                        \A j \in DOMAIN src[i].sequenceStartPositions :
                            S[EntriesBefore(src, i) + j - 1]
                              = src[i].sequenceStartPositions[j]
                                  + RowsBefore(src, i)
                  /\ [k \in DOMAIN src |-> src[k].sequenceStartPositions]
                        = <<<<0, 4>>, <<0, 5>>>> => S = <<0, 4, 9>>

C14_Witness ==
    /\ ret.op = "concat"
    /\ Len(ret.src) = 2
    /\ ret.src[1].sequenceStartPositions = <<0, 4>>
    /\ ret.src[2].sequenceStartPositions = <<0, 5>>
    /\ getBatchSize(ret.dst) = 9
    /\ ret.dst.sequenceStartPositions = <<0, 4, 9>>

\* C15: on a descriptor with both boundary vectors checkSubset succeeds
\* exactly when every value of sequenceStartPositions is a value of
\* subSequenceStartPositions; else it fails with an invariant violation;
\* the vectors are as before in both cases.
C15_CheckSubset ==
    ret.op = "checkSubset" =>
        LET a == ret.srcBefore
        IN  /\ ret.outcome = "ok" <=>
                  Range(a.sequenceStartPositions)
                      \subseteq Range(a.subSequenceStartPositions)
            /\ ret.outcome # "ok" => ret.outcome = "InvariantViolation"
            /\ ret.srcAfter = ret.srcBefore

\* as many sub-sequence boundaries as sequence boundaries, one of which is
\* not among them
C15_Witness ==
    /\ ret.op = "checkSubset"
    /\ ret.outcome = "InvariantViolation"
    /\ Len(ret.srcBefore.sequenceStartPositions)
          <= Len(ret.srcBefore.subSequenceStartPositions)

(***************************************************************************)
(* Further properties of the readiness synchronizer.                       *)
(***************************************************************************)
\* C16: a thread that is about to read or write valueCount in
\* waitValueReady / notifyValueReady holds the value mutex, one that is
\* about to read or write gradCount in waitGradReady / notifyGradReady
\* holds the grad mutex, and a waiting thread keeps the mutex from the
\* test of its condition to its update of the counter.
C16_LockDiscipline ==
    \A t \in Threads :
        /\ pc[t] \in {"wv_pred", "wv_guard", "wv_dec", "nv_op"} => valueMutex = t
        /\ pc[t] \in {"wg_pred", "wg_reset", "ng_load", "ng_store"} => gradMutex = t

\* C17: with allCount fixed, valueCount stays between 0 and allCount
\* under every interleaving of notifyValueReady and waitValueReady calls.
C17_ValueCountInRange ==
    ValueRun => (0 <= valueCount /\ valueCount <= allCount)

\* the runs of countIncrement that began with allCount = 0
ZeroStart == role[3] = "countIncrement" /\ allCount = calls[3]

\* the waitValueReady call of thread 2 has found its condition true
Passed == pc[2] \in {"wv_guard", "wv_dec"} \/ calls[2] >= 1

\* C18: from allCount = 0, notifyValueReady leaves valueCount at 0 and the
\* waitValueReady caller does not get past its condition; valueCount
\* leaves 0 only by a notifyValueReady that runs once countIncrement has
\* raised allCount, and only then does the caller return.
C18_ZeroFanOut ==
    /\ [](ZeroStart /\ allCount = 0 => valueCount = 0 /\ ~Passed)
    /\ [][ZeroStart /\ pc[1] = "nv_op" /\ pc'[1] # "nv_op" /\ allCount = 0
             => valueCount' = 0 /\ ~Passed']_vars
    /\ [][ZeroStart /\ valueCount = 0 /\ valueCount' # 0
             => pc[1] = "nv_op" /\ pc'[1] # "nv_op" /\ calls[3] = 1]_vars
    /\ [][ZeroStart /\ ~Passed /\ Passed' => valueCount # 0]_vars

\* two notifies, the countIncrement between them, and the wait returned
C18_Witness ==
    /\ ZeroStart
    /\ calls[3] = 1
    /\ calls[1] = 2
    /\ calls[2] = 1
    /\ valueCount = 0

\* allCount is 0 and the one notifyGradReady of the run has returned
\* before the waitGradReady call begins
NotifiedBefore ==
    /\ GradRun /\ allCount = 0 /\ Cardinality(Active) = 1
    /\ \A t \in Active : calls[t] = 1
    /\ pc[1] = "idle" /\ calls[1] = 0

\* ... and the waitGradReady call has not found its condition true
StuckAtOne ==
    /\ GradRun /\ allCount = 0 /\ Cardinality(Active) = 1
    /\ \A t \in Active : calls[t] = 1
    /\ gradCount = 1
    /\ calls[1] = 0 /\ pc[1] # "wg_reset"

\* C19: with allCount = 0 and gradCount = 0 waitGradReady returns without
\* suspending when no notifyGradReady is called; when one notifyGradReady
\* has returned before the wait starts, the wait never returns.
C19_ZeroFanIn ==
    /\ [](GradRun /\ allCount = 0 /\ Active = {} => pc[1] # "wg_sleep")
    /\ (GradRun /\ allCount = 0 /\ Active = {}) => <>(calls[1] = limit[1])
    /\ [](NotifiedBefore => StuckAtOne)
    /\ [][StuckAtOne => StuckAtOne']_vars

C19_Witness ==
    /\ GradRun
    /\ allCount = 0
    /\ Cardinality(Active) = 1
    /\ gradCount = 1
    /\ pc[1] = "wg_sleep"
    /\ \A t \in Active : calls[t] = 1

ValueRoles == {"waitValue", "notifyValue"}
GradRoles == {"waitGrad", "notifyGrad"}

\* C20: a step of waitValueReady or notifyValueReady leaves gradCount and
\* allCount as they are, a step of waitGradReady or notifyGradReady leaves
\* valueCount and allCount as they are, and countIncrement leaves both
\* counters as they are and raises allCount by exactly one.
C20_Independence ==
    [][\A t \in Threads :
          (pc'[t] # pc[t] \/ calls'[t] # calls[t]) =>
              /\ role[t] \in ValueRoles =>
                    gradCount' = gradCount /\ allCount' = allCount
              /\ role[t] \in GradRoles =>
                    valueCount' = valueCount /\ allCount' = allCount
              /\ role[t] = "countIncrement" =>
                    /\ valueCount' = valueCount
                    /\ gradCount' = gradCount
                    /\ allCount' = IF calls'[t] # calls[t]
                                   THEN allCount + 1 ELSE allCount]_vars

\* both directions under way on the one descriptor
C20_Witness ==
    /\ role[3] = "waitGrad"
    /\ valueCount # 0
    /\ gradCount # 0
    /\ pc[2] = "wv_dec"
    /\ pc[3] = "wg_reset"

====
